---- MODULE Spec2Model ----
(***************************************************************************)
(* Model of src/app.py: the load_data pipeline (schema normalisation,     *)
(* DENIED flag, payer attribution, date parsing) and the tab blocks that   *)
(* query the loaded tables (filters, financial exposure, denial           *)
(* prediction).                                                            *)
(*                                                                         *)
(* A DataFrame is a record [cols, rows]: cols is the set of column names,  *)
(* rows the sequence of rows, each row a function from cols to cells.      *)
(* A cell is a set with at most one element: {} is a missing value (NaN,   *)
(* NaT, None) and {v} the value v.  The DENIED column has dtype bool and   *)
(* holds plain booleans.  A timestamp is a record [date, time]; a rate is  *)
(* the exact fraction [num, den] of the float the code computes.           *)
(***************************************************************************)
EXTENDS Integers, Sequences, FiniteSets, TLC

VARIABLES csv, pc, patients, encounters, claims, transactions, payer_trans, view

vars == <<csv, pc, patients, encounters, claims, transactions, payer_trans, view>>

tables == <<patients, encounters, claims, transactions, payer_trans>>

\* ------------------------------------------------------------------------
\* Bounds of the model
\* ------------------------------------------------------------------------
MaxClaims == 2

MaxTrans == 2

MaxTx == 2

MaxEstClaims == 25

MaxEstDenied == 2

\* ------------------------------------------------------------------------
\* DataFrame helpers (pandas operations used by app.py)
\* ------------------------------------------------------------------------
NA == {}

Frame(cols, rows) == [cols |-> cols, rows |-> rows]

EmptyFrame == Frame({}, <<>>)

NRows(df) == Len(df.rows)

Column(df, c) == [i \in 1..NRows(df) |-> df.rows[i][c]]

Scalar(df, v) == [i \in 1..NRows(df) |-> v]

\* df[c] = vals
Assign(df, c, vals) ==
    Frame(df.cols \cup {c},
          [i \in 1..NRows(df) |->
              [k \in df.cols \cup {c} |-> IF k = c THEN vals[i] ELSE df.rows[i][k]]])

\* df.rename(columns={old: new})
Rename(df, old, new) ==
    LET nc == (df.cols \ {old}) \cup {new} IN
    Frame(nc, [i \in 1..NRows(df) |->
                  [k \in nc |-> IF k = new THEN df.rows[i][old] ELSE df.rows[i][k]]])

\* df[[c1, c2, ...]] on a sequence of rows
Project(rows, cols) == [i \in 1..Len(rows) |-> [k \in cols |-> rows[i][k]]]

\* series == value, elementwise: a missing cell or a None value never compares equal
SeriesEq(cell, value) == value # NA /\ cell = value

\* df[df[c] == value]
FilterEq(df, c, value) ==
    Frame(df.cols, SelectSeq(df.rows, LAMBDA r : SeriesEq(r[c], value)))

\* df[c].dropna().unique(), as a set of cells
Unique(df, c) == {df.rows[i][c] : i \in 1..NRows(df)} \ {NA}

\* ------------------------------------------------------------------------
\* pd.to_datetime(..., errors="coerce")
\* ------------------------------------------------------------------------
Timestamp(d, t) == [date |-> d, time |-> t]

ParseDate(s) ==
    CASE s = "2020-01-01" -> {Timestamp(1, 0)}
      [] s = "2021-06-01" -> {Timestamp(2, 0)}
      [] s = "2023-01-01T08:00:00Z" -> {Timestamp(3, 8)}
      [] s = "2023-01-01T20:00:00Z" -> {Timestamp(3, 20)}
      [] s = "2023-01-02T08:00:00Z" -> {Timestamp(4, 8)}
      [] OTHER -> NA

ToDatetime(cell) == IF cell = NA THEN NA ELSE ParseDate(CHOOSE s \in cell : TRUE)

TsLeq(a, b) == a.date < b.date \/ (a.date = b.date /\ a.time <= b.time)

\* ------------------------------------------------------------------------
\* load_data: claims STATUS column
\* ------------------------------------------------------------------------
StatusResolvedAliasSwapped(df) ==
    IF "STATUS" \in df.cols THEN df
    ELSE IF "STATUS1" \in df.cols THEN Assign(df, "STATUS", Column(df, "STATUS1"))
    ELSE IF "STATUSP" \in df.cols THEN Assign(df, "STATUS", Column(df, "STATUSP"))
    ELSE Assign(df, "STATUS", Scalar(df, {"UNKNOWN"}))

StatusResolved(df) ==
    IF "STATUS" \in df.cols THEN df
    ELSE IF "STATUSP" \in df.cols THEN Assign(df, "STATUS", Column(df, "STATUSP"))
    ELSE IF "STATUS1" \in df.cols THEN Assign(df, "STATUS", Column(df, "STATUS1"))
    ELSE Assign(df, "STATUS", Scalar(df, {"UNKNOWN"}))

GeZero(cell) == \E v \in cell : v >= 0

\* series > 0 on one cell: a missing balance compares False
GtZero(cell) == \E v \in cell : v > 0

\* load_data: DENIED flag
DeniedDerived(df) ==
    IF "OUTSTANDINGP" \in df.cols
    THEN Assign(df, "DENIED", [i \in 1..NRows(df) |-> GtZero(df.rows[i]["OUTSTANDINGP"])])
    ELSE Assign(df, "DENIED", Scalar(df, FALSE))

\* ------------------------------------------------------------------------
\* load_data: payer attribution
\* ------------------------------------------------------------------------
IndexOrders(n) == {p \in [1..n -> 1..n] : \A i, j \in 1..n : i # j => p[i] # p[j]}

\* sort_values(c): ascending, missing values last (na_position="last") in
\* their original order; the default quicksort is not stable, so rows with
\* equal keys may come out in any order.
SortOrders(rows, c) ==
    {p \in IndexOrders(Len(rows)) :
        \A i, j \in 1..Len(rows) : i < j =>
            LET a == rows[p[i]][c]
                b == rows[p[j]][c]
            IN  /\ (a = NA => b = NA)
                /\ (a = NA /\ b = NA => p[i] < p[j])
                /\ (a # NA /\ b # NA =>
                       TsLeq(CHOOSE x \in a : TRUE, CHOOSE y \in b : TRUE))}

Reorder(rows, p) == [i \in 1..Len(rows) |-> rows[p[i]]]

KeepAllRows(rows, key) == rows

\* drop_duplicates(key, keep="last"): missing keys count as equal to each other
RECURSIVE DropDuplicatesKeepLast(_, _)
DropDuplicatesKeepLast(rows, key) ==
    IF rows = <<>> THEN <<>>
    ELSE LET h == Head(rows)
             t == Tail(rows)
         IN  IF \E j \in 1..Len(t) : t[j][key] = h[key]
             THEN DropDuplicatesKeepLast(t, key)
             ELSE <<h>> \o DropDuplicatesKeepLast(t, key)

\* left.merge(right, left_on=, right_on=, how="left") on sequences of rows:
\* left order is kept, every left row appears once per matching right row,
\* or once with missing right columns; missing keys match each other.
RECURSIVE MergeLeft(_, _, _, _, _)
MergeLeft(left, right, left_on, right_on, right_cols) ==
    IF left = <<>> THEN <<>>
    ELSE LET l == Head(left)
             m == SelectSeq(right, LAMBDA r : r[right_on] = l[left_on])
             joined == IF m = <<>>
                       THEN <<l @@ [k \in right_cols |-> NA]>>
                       ELSE [j \in 1..Len(m) |-> l @@ m[j]]
         IN  joined \o MergeLeft(Tail(left), right, left_on, right_on, right_cols)

JoinRuns(cl, pt) ==
    "PATIENTID" \in cl.cols /\ "PATIENT" \in pt.cols /\ "PAYER" \in pt.cols

\* pt_sorted for one outcome p of the sort
PtSorted(pt, p) ==
    IF "START_DATE" \in pt.cols
    THEN Reorder(Assign(pt, "START_DATE",
                        [i \in 1..NRows(pt) |-> ToDatetime(pt.rows[i]["START_DATE"])]).rows, p)
    ELSE pt.rows

LatestPayer(sorted) ==
    Project(DropDuplicatesKeepLast(sorted, "PATIENT"), {"PATIENT", "PAYER"})

PayerAttached(cl, pt, p) ==
    IF JoinRuns(cl, pt)
    THEN Frame(cl.cols \cup {"PATIENT", "PAYER"},
               MergeLeft(cl.rows, LatestPayer(PtSorted(pt, p)),
                         "PATIENTID", "PATIENT", {"PATIENT", "PAYER"}))
    ELSE cl

PayerDefaulted(df) ==
    IF "PAYER" \notin df.cols THEN Assign(df, "PAYER", Scalar(df, {"Unknown"})) ELSE df

\* the outcomes of the sort in load_data (one order when nothing is sorted)
LoadSortOrders(cl, pt) ==
    IF JoinRuns(cl, pt) /\ "START_DATE" \in pt.cols
    THEN SortOrders(Assign(pt, "START_DATE",
                        [i \in 1..NRows(pt) |-> ToDatetime(pt.rows[i]["START_DATE"])]).rows,
                    "START_DATE")
    ELSE {[i \in 1..NRows(pt) |-> i]}

\* ------------------------------------------------------------------------
\* load_data: encounters and transactions
\* ------------------------------------------------------------------------
EncountersRenamed(df) ==
    IF "ENCOUNTERCLASS" \notin df.cols /\ "CLASS" \in df.cols
    THEN Rename(df, "CLASS", "ENCOUNTERCLASS")
    ELSE df

TransactionsParsed(df) ==
    IF "FROMDATE" \in df.cols
    THEN Assign(df, "FROMDATE", [i \in 1..NRows(df) |-> ToDatetime(df.rows[i]["FROMDATE"])])
    ELSE df

\* canonical claims table for one outcome p of the sort
CanonicalClaims(cl, pt, p) ==
    PayerDefaulted(PayerAttached(DeniedDerived(StatusResolved(cl)), pt, p))

\* ------------------------------------------------------------------------
\* Input files
\* ------------------------------------------------------------------------
Restrict(r, cols) == [k \in cols |-> r[k]]

WithIds(rows) == [i \in 1..Len(rows) |-> rows[i] @@ [k \in {"Id"} |-> {i}]]

SeqsUpTo(S, n) == UNION {[1..m -> S] : m \in 0..n}

PatientCells == {{"P1"}, {"P2"}, NA}

PayerCells == {{"X"}, {"Y"}}

StartDateCells == {{"2020-01-01"}, {"2021-06-01"}, {"invalid"}}

StatusCells == {{"BILLED"}, NA}

BalanceCells == {{0 - 50}, {0}, {50}, NA}

PatientsCsv ==
    Frame({"Id", "GENDER", "BIRTHDATE"},
          << [Id |-> {"P1"}, GENDER |-> {"F"}, BIRTHDATE |-> {"1950-01-01"}],
             [Id |-> {"P2"}, GENDER |-> {"M"}, BIRTHDATE |-> {"1990-01-01"}],
             [Id |-> {"P3"}, GENDER |-> NA, BIRTHDATE |-> {"1990-01-01"}] >>)

EncountersCsv(classcol) ==
    Frame({"Id", "PATIENT", classcol},
          << [k \in {"Id", "PATIENT", classcol} |->
                 IF k = "Id" THEN {"E1"} ELSE IF k = "PATIENT" THEN {"P1"} ELSE {"ambulatory"}],
             [k \in {"Id", "PATIENT", classcol} |->
                 IF k = "Id" THEN {"E2"} ELSE IF k = "PATIENT" THEN {"P2"} ELSE {"emergency"}],
             [k \in {"Id", "PATIENT", classcol} |->
                 IF k = "Id" THEN {"E3"} ELSE IF k = "PATIENT" THEN {"P2"} ELSE NA] >>)

TransactionsCsv ==
    Frame({"FROMDATE", "AMOUNT"},
          << [FROMDATE |-> {"2023-01-01T08:00:00Z"}, AMOUNT |-> {100}],
             [FROMDATE |-> {"invalid"}, AMOUNT |-> {9999}] >>)

PayerTransCsv ==
    Frame({"PATIENT", "PAYER", "START_DATE"},
          << [PATIENT |-> {"P1"}, PAYER |-> {"X"}, START_DATE |-> {"2020-01-01"}] >>)

Files(p, e, pt, c, t) ==
    [patients |-> p, encounters |-> e, payer_trans |-> pt, claims |-> c, transactions |-> t]

TransRows(cols) ==
    {Restrict(r, cols) :
        r \in [PATIENT : PatientCells, PAYER : PayerCells, START_DATE : StartDateCells]}

\* one claim per possible patient reference
OnePerKey == <<[PATIENTID |-> {"P1"}], [PATIENTID |-> {"P2"}], [PATIENTID |-> NA]>>

\* payer attribution inputs: any transitions table over any subset of its
\* columns, joined to one claim per patient reference
InitJoin ==
    \E tc \in SUBSET {"PATIENT", "PAYER", "START_DATE"} :
    \E pt \in SeqsUpTo(TransRows(tc), MaxTrans) :
    \E cc \in {{"PATIENTID"}, {}} :
        csv = Files(PatientsCsv, EncountersCsv("CLASS"), Frame(tc, pt),
                    Frame(cc \cup {"Id"}, WithIds(Project(OnePerKey, cc))), TransactionsCsv)

\* payer attribution inputs: any claims table, joined to any shorter
\* transitions table
InitClaims ==
    \E pt \in SeqsUpTo(TransRows({"PATIENT", "PAYER", "START_DATE"}), MaxTrans - 1) :
    \E cl \in SeqsUpTo([PATIENTID : PatientCells], MaxClaims) :
        csv = Files(PatientsCsv, EncountersCsv("CLASS"),
                    Frame({"PATIENT", "PAYER", "START_DATE"}, pt),
                    Frame({"PATIENTID", "Id"}, WithIds(cl)), TransactionsCsv)

\* schema inputs: any subset of the status and balance columns, any values
InitSchema ==
    \E sc \in SUBSET {"STATUS", "STATUSP", "STATUS1", "OUTSTANDINGP"} :
    \E cl \in SeqsUpTo({Restrict(r, sc \cup {"PATIENTID"}) :
                          r \in [PATIENTID : {{"P1"}}, STATUS : StatusCells,
                                 STATUSP : StatusCells, STATUS1 : StatusCells,
                                 OUTSTANDINGP : BalanceCells]}, MaxClaims) :
        csv = Files(PatientsCsv, EncountersCsv("ENCOUNTERCLASS"), PayerTransCsv,
                    Frame(sc \cup {"PATIENTID", "Id"}, WithIds(cl)), TransactionsCsv)

\* estimator inputs: n claims of patient P1 (payer X) of which the first d
\* have a positive balance, and k claims of patient P2 (payer Y)
EstClaims(n, d, k) ==
    [i \in 1..(n + k) |->
        [PATIENTID |-> IF i <= n THEN {"P1"} ELSE {"P2"},
         OUTSTANDINGP |-> IF i <= d \/ i > n THEN {50} ELSE {0}]]

EstPayerTransCsv ==
    Frame({"PATIENT", "PAYER", "START_DATE"},
          << [PATIENT |-> {"P1"}, PAYER |-> {"X"}, START_DATE |-> {"2020-01-01"}],
             [PATIENT |-> {"P2"}, PAYER |-> {"Y"}, START_DATE |-> {"2021-06-01"}] >>)

InitEst ==
    \E n \in 0..MaxEstClaims : \E d \in 0..MaxEstDenied : \E k \in 0..1 :
        /\ d <= n
        /\ csv = Files(PatientsCsv, EncountersCsv("ENCOUNTERCLASS"), EstPayerTransCsv,
                       Frame({"PATIENTID", "OUTSTANDINGP", "Id"},
                             WithIds(EstClaims(n, d, k))),
                       TransactionsCsv)

FromDateCells ==
    {{"2023-01-01T08:00:00Z"}, {"2023-01-01T20:00:00Z"}, {"2023-01-02T08:00:00Z"},
     {"invalid"}}

AmountCells == {{50}, {100}}

\* exposure inputs: any transactions, alone or after those of TransactionsCsv
InitTx ==
    \E pre \in {<<>>, TransactionsCsv.rows} :
    \E tx \in SeqsUpTo([FROMDATE : FromDateCells, AMOUNT : AmountCells], MaxTx) :
        csv = Files(PatientsCsv, EncountersCsv("CLASS"), EstPayerTransCsv,
                    Frame({"PATIENTID", "OUTSTANDINGP", "Id"}, WithIds(EstClaims(1, 1, 0))),
                    Frame({"FROMDATE", "AMOUNT"}, pre \o tx))

NotLoaded ==
    /\ pc = "start"
    /\ patients = EmptyFrame
    /\ encounters = EmptyFrame
    /\ claims = EmptyFrame
    /\ transactions = EmptyFrame
    /\ payer_trans = EmptyFrame
    /\ view = [tab |-> "none"]

InitLoad == (InitJoin \/ InitClaims \/ InitSchema) /\ NotLoaded

Init == (InitEst \/ InitTx) /\ NotLoaded

\* ------------------------------------------------------------------------
\* load_data
\* ------------------------------------------------------------------------
Load ==
    /\ pc = "start"
    /\ \E p \in LoadSortOrders(csv.claims, csv.payer_trans) :
           claims' = CanonicalClaims(csv.claims, csv.payer_trans, p)
    /\ patients' = csv.patients
    /\ encounters' = EncountersRenamed(csv.encounters)
    /\ transactions' = TransactionsParsed(csv.transactions)
    /\ payer_trans' = csv.payer_trans
    /\ pc' = "loaded"
    /\ UNCHANGED <<csv, view>>

\* ------------------------------------------------------------------------
\* KPIs
\* ------------------------------------------------------------------------
KPIs(p, e, c) ==
    [total_patients |-> NRows(p), total_encounters |-> NRows(e),
     total_claims |-> NRows(c), total_payers |-> Cardinality(Unique(c, "PAYER"))]

OverviewTab ==
    /\ pc = "loaded"
    /\ view' = [tab |-> "Overview", kpi |-> KPIs(patients, encounters, claims)]
    /\ UNCHANGED <<csv, pc, tables>>

\* ------------------------------------------------------------------------
\* Patients, Encounters and Claims tabs: equality filters.  Each block is an
\* operator from the module-level table to that table as the block leaves
\* it and the frame the block displays.
\* ------------------------------------------------------------------------
AllSel == {"All"}

\* the options of st.selectbox(["All"] + sorted(values))
Options(df, c) == {AllSel} \cup Unique(df, c)

PatientsBlock(patients_df, gender) ==
    LET df_pat == IF gender # AllSel THEN FilterEq(patients_df, "GENDER", gender)
                  ELSE patients_df
    IN  [table |-> patients_df, shown |-> df_pat]

PatientsTab ==
    /\ pc = "loaded"
    /\ \E gender \in Options(patients, "GENDER") :
          LET b == PatientsBlock(patients, gender) IN
          /\ patients' = b.table
          /\ view' = [tab |-> "Patients", gender |-> gender, df_pat |-> b.shown]
    /\ UNCHANGED <<csv, pc, encounters, claims, transactions, payer_trans>>

EncountersBlock(encounters_df, selected_class) ==
    LET df_enc == IF selected_class # AllSel
                  THEN FilterEq(encounters_df, "ENCOUNTERCLASS", selected_class)
                  ELSE encounters_df
    IN  [table |-> encounters_df, shown |-> df_enc]

EncountersTab ==
    /\ pc = "loaded"
    /\ \E selected_class \in Options(encounters, "ENCOUNTERCLASS") :
          LET b == EncountersBlock(encounters, selected_class) IN
          /\ encounters' = b.table
          /\ view' = [tab |-> "Encounters", selected_class |-> selected_class,
                      df_enc |-> b.shown]
    /\ UNCHANGED <<csv, pc, patients, claims, transactions, payer_trans>>

ClaimsBlockInPlace(claims_df, status_sel, payer_sel) ==
    LET df0 == claims_df
        df1 == IF status_sel # AllSel THEN FilterEq(df0, "STATUS", status_sel) ELSE df0
        df2 == IF payer_sel # AllSel THEN FilterEq(df1, "PAYER", payer_sel) ELSE df1
    IN  [table |-> df2, shown |-> df2]

ClaimsBlock(claims_df, status_sel, payer_sel) ==
    LET df0 == claims_df
        df1 == IF status_sel # AllSel THEN FilterEq(df0, "STATUS", status_sel) ELSE df0
        df2 == IF payer_sel # AllSel THEN FilterEq(df1, "PAYER", payer_sel) ELSE df1
    IN  [table |-> claims_df, shown |-> df2]

ClaimsTabFilter ==
    /\ pc = "loaded"
    /\ \E status_sel \in Options(claims, "STATUS") :
       \E payer_sel \in Options(claims, "PAYER") :
          LET b == ClaimsBlock(claims, status_sel, payer_sel) IN
          /\ claims' = b.table
          /\ view' = [tab |-> "Claims", status_sel |-> status_sel,
                      payer_sel |-> payer_sel, df_clm |-> b.shown]
    /\ UNCHANGED <<csv, pc, patients, encounters, transactions, payer_trans>>

\* ------------------------------------------------------------------------
\* Claims tab: total financial exposure
\* ------------------------------------------------------------------------
\* df.dropna(subset=[c])
DropNa(df, c) == Frame(df.cols, SelectSeq(df.rows, LAMBDA r : r[c] # NA))

\* series.dt.date of a present timestamp cell
DtDate(cell) == (CHOOSE x \in cell : TRUE).date

InWindowEndExclusive(d, start_date, end_date) == d >= start_date /\ d < end_date

InWindow(d, start_date, end_date) == d >= start_date /\ d <= end_date

\* series.sum(): missing values are skipped
RECURSIVE SumAmount(_)
SumAmount(rows) ==
    IF rows = <<>> THEN 0
    ELSE LET c == Head(rows)["AMOUNT"]
         IN  (IF c = NA THEN 0 ELSE CHOOSE v \in c : TRUE) + SumAmount(Tail(rows))

RECURSIVE Ascending(_)
Ascending(S) ==
    IF S = {} THEN <<>>
    ELSE LET m == CHOOSE x \in S : \A y \in S : x <= y
         IN  <<m>> \o Ascending(S \ {m})

\* assign(ServiceDate=...).groupby("ServiceDate", as_index=False)["AMOUNT"].sum()
GroupByDateSum(rows) ==
    LET keys == Ascending({DtDate(rows[i]["FROMDATE"]) : i \in 1..Len(rows)})
    IN  [k \in 1..Len(keys) |->
            [ServiceDate |-> keys[k],
             AMOUNT |-> SumAmount(SelectSeq(rows,
                            LAMBDA r : DtDate(r["FROMDATE"]) = keys[k]))]]

TxFiltered(tx_valid, start_date, end_date) ==
    Frame(tx_valid.cols,
          SelectSeq(tx_valid.rows,
                    LAMBDA r : InWindow(DtDate(r["FROMDATE"]), start_date, end_date)))

ValidDates(tx_valid) == {DtDate(tx_valid.rows[i]["FROMDATE"]) : i \in 1..NRows(tx_valid)}

MinDate(tx_valid) == CHOOSE d \in ValidDates(tx_valid) : \A e \in ValidDates(tx_valid) : d <= e

MaxDate(tx_valid) == CHOOSE d \in ValidDates(tx_valid) : \A e \in ValidDates(tx_valid) : d >= e

\* what st.date_input can return: a (start, end) pair or a single date,
\* within [min_value, max_value]
DateRanges(min_date, max_date) ==
    {<<s, e>> : s \in min_date..max_date, e \in min_date..max_date} \cup
    {<<s>> : s \in min_date..max_date}

ClaimsTabExposure ==
    /\ pc = "loaded"
    /\ LET tx_valid == DropNa(transactions, "FROMDATE") IN
       IF tx_valid.rows = <<>>
       THEN view' = [tab |-> "Exposure", info |-> "No valid transaction dates available."]
       ELSE \E date_range \in DateRanges(MinDate(tx_valid), MaxDate(tx_valid)) :
               LET start_date == date_range[1]
                   end_date == IF Len(date_range) = 2 THEN date_range[2]
                               ELSE MaxDate(tx_valid)
                   tx_filtered == TxFiltered(tx_valid, start_date, end_date)
               IN  /\ start_date <= end_date
                   /\ view' = [tab |-> "Exposure", info |-> "",
                               start_date |-> start_date, end_date |-> end_date,
                               exposure_by_date |-> GroupByDateSum(tx_filtered.rows),
                               total_exposure |-> SumAmount(tx_filtered.rows)]
    /\ UNCHANGED <<csv, pc, tables>>

\* ------------------------------------------------------------------------
\* Predict Denial tab
\* ------------------------------------------------------------------------
BaseThreshold == 5

HighCost == 2000

ElderlyAge == 65

\* series.mean() * 100.0 of a non-empty bool column, as an exact fraction
MeanPercent(rows) ==
    [num |-> 100 * Cardinality({i \in 1..Len(rows) : rows[i]["DENIED"]}),
     den |-> Len(rows)]

denial_rate_of_all_claims(claims_df, payer_id) ==
    LET subset == FilterEq(claims_df, "PAYER", payer_id)
    IN  IF NRows(subset) = 0 THEN [num |-> 0, den |-> 1]
        ELSE MeanPercent(claims_df.rows)

compute_payer_denial_rate(claims_df, payer_id) ==
    LET subset == FilterEq(claims_df, "PAYER", payer_id)
    IN  IF NRows(subset) = 0 THEN [num |-> 0, den |-> 1]
        ELSE MeanPercent(subset.rows)

ThresholdNonStrict(cost, age) ==
    LET t0 == BaseThreshold
        t1 == IF cost >= HighCost THEN t0 - 1 ELSE t0
        t2 == IF age >= ElderlyAge THEN t1 - 1 ELSE t1
    IN  t2

Threshold(cost, age) ==
    LET t0 == BaseThreshold
        t1 == IF cost > HighCost THEN t0 - 1 ELSE t0
        t2 == IF age > ElderlyAge THEN t1 - 1 ELSE t1
    IN  t2

RateGe(rate, threshold) == rate.num >= threshold * rate.den

\* payer_rate > threshold
RateGt(rate, threshold) == rate.num > threshold * rate.den

Prediction(payer_rate, threshold) ==
    IF RateGt(payer_rate, threshold) THEN "DENIED" ELSE "NOT DENIED"

\* st.selectbox over the sorted payers returns None when there is none
PayerOptions == IF Unique(claims, "PAYER") = {} THEN {NA} ELSE Unique(claims, "PAYER")

Costs == {0, HighCost, HighCost + 1}

Ages == {0, ElderlyAge, ElderlyAge + 1}

PredictTab ==
    /\ pc = "loaded"
    /\ \E payer \in PayerOptions : \E cost \in Costs : \E age \in Ages :
          LET payer_rate == compute_payer_denial_rate(claims, payer)
              threshold == Threshold(cost, age)
          IN  view' = [tab |-> "Predict", payer |-> payer, cost |-> cost, age |-> age,
                       payer_rate |-> payer_rate, threshold |-> threshold,
                       prediction |-> Prediction(payer_rate, threshold)]
    /\ UNCHANGED <<csv, pc, tables>>

Next ==
    \/ Load
    \/ OverviewTab
    \/ PatientsTab
    \/ EncountersTab
    \/ ClaimsTabFilter
    \/ ClaimsTabExposure
    \/ PredictTab

Spec == Init /\ [][Next]_vars

NextLoad == Load

SpecLoad == InitLoad /\ [][NextLoad]_vars

\* ------------------------------------------------------------------------
\* Properties of load_data (checked under SpecLoad)
\* ------------------------------------------------------------------------
RawClaims == csv.claims.rows

RawTrans == csv.payer_trans.rows

\* claim row r has no patient reference, or one that matches no PATIENT
NoTransitionFor(r) ==
    \/ "PATIENTID" \notin claims.cols
    \/ r["PATIENTID"] = NA
    \/ "PATIENT" \notin csv.payer_trans.cols
    \/ \A j \in 1..Len(RawTrans) : RawTrans[j]["PATIENT"] # r["PATIENTID"]

\* C1: after load_data every claim has a non-null STATUS and a non-null
\* PAYER, and a claim whose PATIENTID is null or matches no PATIENT has
\* PAYER "Unknown".
C1_StatusAndPayerNeverNull ==
    pc = "loaded" =>
        \A i \in 1..NRows(claims) :
            LET r == claims.rows[i] IN
            /\ r["STATUS"] # NA
            /\ r["PAYER"] # NA
            /\ (NoTransitionFor(r) => r["PAYER"] = {"Unknown"})

\* the transitions of patient cell pid whose START_DATE parses
ParseableOf(pid) ==
    {j \in 1..Len(RawTrans) :
        RawTrans[j]["PATIENT"] = pid /\ ToDatetime(RawTrans[j]["START_DATE"]) # NA}

StartOf(j) == CHOOSE t \in ToDatetime(RawTrans[j]["START_DATE"]) : TRUE

\* C2: for every patient with at least one transition whose START_DATE
\* parses, the payer attached to that patient's claims is the payer of a
\* transition with the maximum parseable START_DATE (unparseable dates rank
\* earliest).
C2_LatestParseableTransitionWins ==
    (pc = "loaded" /\ JoinRuns(csv.claims, csv.payer_trans)
        /\ "START_DATE" \in csv.payer_trans.cols) =>
        \A i \in 1..NRows(claims) :
            LET r == claims.rows[i]
                T == ParseableOf(r["PATIENTID"])
            IN  (r["PATIENTID"] # NA /\ T # {}) =>
                    \E j \in T : /\ \A j2 \in T : TsLeq(StartOf(j2), StartOf(j))
                                 /\ r["PAYER"] = RawTrans[j]["PAYER"]

\* C3: the canonical claims table has exactly the rows of the raw claims
\* table, each input claim once and in input order, whether or not a payer
\* was found for it.
C3_JoinCompleteness ==
    pc = "loaded" =>
        /\ NRows(claims) = Len(RawClaims)
        /\ \A i \in 1..NRows(claims) :
               \A k \in csv.claims.cols : claims.rows[i][k] = RawClaims[i][k]

\* the join ran over a patient with two transitions and left a claim without payer
C3_Witness ==
    /\ pc = "loaded"
    /\ JoinRuns(csv.claims, csv.payer_trans)
    /\ \E i \in 1..NRows(claims) : claims.rows[i]["PAYER"] = NA
    /\ \E i \in 1..NRows(claims) : \E j1, j2 \in 1..Len(RawTrans) :
          /\ j1 # j2
          /\ RawTrans[j1]["PATIENT"] = claims.rows[i]["PATIENTID"]
          /\ RawTrans[j2]["PATIENT"] = claims.rows[i]["PATIENTID"]

\* C7: with an OUTSTANDINGP column every claim's DENIED flag is
\* (OUTSTANDINGP > 0), false for zero, negative and missing balances;
\* without the column every DENIED is false; DENIED is always a boolean.
C7_DeniedIsPositiveBalance ==
    pc = "loaded" =>
        \A i \in 1..NRows(claims) :
            LET r == claims.rows[i] IN
            /\ r["DENIED"] \in BOOLEAN
            /\ IF "OUTSTANDINGP" \in csv.claims.cols
               THEN /\ r["OUTSTANDINGP"] = RawClaims[i]["OUTSTANDINGP"]
                    /\ r["DENIED"] = (r["OUTSTANDINGP"] # NA
                                      /\ \A v \in r["OUTSTANDINGP"] : ~(v <= 0))
               ELSE r["DENIED"] = FALSE

\* a zero balance gave DENIED = false beside a positive one that gave true
C7_Witness ==
    /\ pc = "loaded"
    /\ "OUTSTANDINGP" \in csv.claims.cols
    /\ \E i, j \in 1..NRows(claims) :
          /\ claims.rows[i]["OUTSTANDINGP"] = {0} /\ ~claims.rows[i]["DENIED"]
          /\ claims.rows[j]["OUTSTANDINGP"] = {50} /\ claims.rows[j]["DENIED"]

\* C8: STATUS is the raw STATUS column when it exists, else a copy of
\* STATUSP when that exists, else a copy of STATUS1 when that exists, else
\* "UNKNOWN" in every row: one outcome for each combination of columns.
C8_StatusResolutionOrder ==
    pc = "loaded" =>
        LET has(c) == c \in csv.claims.cols IN
        /\ "STATUS" \in claims.cols
        /\ \A i \in 1..NRows(claims) :
              LET s == claims.rows[i]["STATUS"] IN
              /\ has("STATUS") => s = RawClaims[i]["STATUS"]
              /\ (~has("STATUS") /\ has("STATUSP")) => s = RawClaims[i]["STATUSP"]
              /\ (~has("STATUS") /\ ~has("STATUSP") /\ has("STATUS1")) =>
                     s = RawClaims[i]["STATUS1"]
              /\ (~has("STATUS") /\ ~has("STATUSP") /\ ~has("STATUS1")) =>
                     s = {"UNKNOWN"}

\* both aliases present with different values and no STATUS: STATUSP was copied
C8_Witness ==
    /\ pc = "loaded"
    /\ "STATUS" \notin csv.claims.cols
    /\ "STATUSP" \in csv.claims.cols
    /\ "STATUS1" \in csv.claims.cols
    /\ \E i \in 1..NRows(claims) :
          /\ RawClaims[i]["STATUSP"] # RawClaims[i]["STATUS1"]
          /\ claims.rows[i]["STATUS"] = RawClaims[i]["STATUSP"]

\* ------------------------------------------------------------------------
\* Properties of the tab blocks (checked under Spec)
\* ------------------------------------------------------------------------
ClaimsOfPayer(p) == {i \in 1..NRows(claims) : p # NA /\ claims.rows[i]["PAYER"] = p}

DeniedOfPayer(p) == {i \in ClaimsOfPayer(p) : claims.rows[i]["DENIED"]}

\* C4: the denial rate of a payer is 0.0 when no claim has that payer and
\* otherwise 100 * (denied claims of the payer) / (claims of the payer); it
\* lies in [0, 100].
C4_DenialRate ==
    view.tab = "Predict" =>
        LET n == Cardinality(ClaimsOfPayer(view.payer))
            d == Cardinality(DeniedOfPayer(view.payer))
            rate == view.payer_rate
        IN  /\ rate.den > 0
            /\ n = 0 => rate = [num |-> 0, den |-> 1]
            /\ n > 0 => rate.num * n = 100 * d * rate.den
            /\ 0 <= rate.num /\ rate.num <= 100 * rate.den

\* a rate strictly between 0 and 100 while another payer has claims too
C4_Witness ==
    /\ view.tab = "Predict"
    /\ ClaimsOfPayer(view.payer) # {}
    /\ Cardinality(ClaimsOfPayer(view.payer)) < NRows(claims)
    /\ 0 < view.payer_rate.num
    /\ view.payer_rate.num < 100 * view.payer_rate.den

\* C5: the threshold is 5 minus 1 if cost > 2000 minus 1 if age > 65, both
\* strict and additive: 5 at cost 2000 and age 65, 3 at cost 2001 and age
\* 66, always one of 3, 4, 5.
C5_Threshold ==
    view.tab = "Predict" =>
        /\ view.threshold = 5 - (IF view.cost > 2000 THEN 1 ELSE 0)
                              - (IF view.age > 65 THEN 1 ELSE 0)
        /\ view.threshold \in {3, 4, 5}
        /\ (view.cost = 2000 /\ view.age = 65) => view.threshold = 5
        /\ (view.cost = 2001 /\ view.age = 66) => view.threshold = 3

\* the boundary inputs gave the baseline threshold
C5_Witness ==
    /\ view.tab = "Predict"
    /\ view.cost = 2000
    /\ view.age = 65
    /\ view.threshold = 5

\* C6: the prediction is DENIED exactly when the payer's denial rate is
\* strictly greater than the threshold used; a payer without claims gets
\* NOT DENIED with rate 0.0 for every cost and age.
C6_DeniedIffRateAboveThreshold ==
    view.tab = "Predict" =>
        /\ view.prediction \in {"DENIED", "NOT DENIED"}
        /\ view.prediction = "DENIED" <=>
               view.payer_rate.num > view.threshold * view.payer_rate.den
        /\ ClaimsOfPayer(view.payer) = {} =>
               (view.prediction = "NOT DENIED" /\ view.payer_rate.num = 0)

\* a nonzero rate equal to the threshold gave NOT DENIED
C6_Witness ==
    /\ view.tab = "Predict"
    /\ view.payer_rate.num > 0
    /\ view.payer_rate.num = view.threshold * view.payer_rate.den
    /\ view.prediction = "NOT DENIED"

RawTx == csv.transactions.rows

RawDate(i) == (CHOOSE t \in ToDatetime(RawTx[i]["FROMDATE"]) : TRUE).date

\* the transactions whose FROMDATE parses to a date within [s, e]
InRange(s, e) ==
    {i \in 1..Len(RawTx) :
        /\ ToDatetime(RawTx[i]["FROMDATE"]) # NA
        /\ s <= RawDate(i)
        /\ RawDate(i) <= e}

RECURSIVE AmountOver(_)
AmountOver(S) ==
    IF S = {} THEN 0
    ELSE LET i == CHOOSE x \in S : TRUE
         IN  (CHOOSE v \in RawTx[i]["AMOUNT"] : TRUE) + AmountOver(S \ {i})

RECURSIVE SeriesTotal(_)
SeriesTotal(series) ==
    IF series = <<>> THEN 0 ELSE Head(series).AMOUNT + SeriesTotal(Tail(series))

\* C9: over the inclusive window [start, end] the transactions whose
\* FROMDATE did not parse count nowhere; each per-date value is the sum of
\* AMOUNT of the in-window transactions of that calendar date; the total is
\* the sum of the per-date values and the sum of AMOUNT over exactly the
\* transactions with start <= date <= end.
C9_Exposure ==
    (view.tab = "Exposure" /\ view.info = "") =>
        LET W == InRange(view.start_date, view.end_date)
            series == view.exposure_by_date
        IN  /\ view.total_exposure = AmountOver(W)
            /\ view.total_exposure = SeriesTotal(series)
            /\ {series[k].ServiceDate : k \in 1..Len(series)} = {RawDate(i) : i \in W}
            /\ \A k, l \in 1..Len(series) :
                  series[k].ServiceDate = series[l].ServiceDate => k = l
            /\ \A k \in 1..Len(series) :
                  series[k].AMOUNT =
                      AmountOver({i \in W : RawDate(i) = series[k].ServiceDate})

\* two transactions of one date were summed; an unparseable one and one
\* after the window were left out
C9_Witness ==
    /\ view.tab = "Exposure"
    /\ view.info = ""
    /\ Len(view.exposure_by_date) = 1
    /\ view.total_exposure = 150
    /\ \E i \in 1..Len(RawTx) : ToDatetime(RawTx[i]["FROMDATE"]) = NA
    /\ \E i \in 1..Len(RawTx) :
          ToDatetime(RawTx[i]["FROMDATE"]) # NA /\ RawDate(i) > view.end_date

\* C10: once load_data has returned, no view interaction changes the loaded
\* patients, encounters, claims, transactions or payer-transition tables,
\* nor the KPI counts.
C10_ViewsLeaveTablesUnchanged ==
    [][pc = "loaded" =>
          /\ tables' = tables
          /\ KPIs(patients', encounters', claims') = KPIs(patients, encounters, claims)]_vars

\* a claims filter that removed rows was displayed and the table still has them all
C10_Witness ==
    /\ view.tab = "Claims"
    /\ view.payer_sel # AllSel
    /\ NRows(view.df_clm) < NRows(claims)
    /\ NRows(claims) = Len(RawClaims)

====
